---- MODULE Spec2Model ----
(***************************************************************************)
(* node-msgr (src/src/index.ts): an AMQP client with publish, consume and  *)
(* request/reply RPC over one reply queue.  The model follows class Msgr:  *)
(* the connection setup of _connect, the deferral of _waitForChannel, the  *)
(* registry `unresolved`, the per-call timer and the reply callback.       *)
(*                                                                         *)
(* One action is one task of the Node event loop (a macrotask with the     *)
(* microtasks it triggers): a call made by the user, a transport           *)
(* completion, a channel event, a message delivery or a timer.             *)
(***************************************************************************)
EXTENDS Integers, Sequences, FiniteSets, TLC

\* Number of calls (rpcExec / publish / consume) the user makes.
MaxCalls == 2

\* options.maxConnectionAttempts of the modelled client instance
\* (constructor option, src/src/index.ts line 53; its default is 50).
MaxConnectionAttempts == 2

\* `options.timeout || 15000`, src/src/index.ts line 68.
DefaultTimeout == 15000

Calls == 1..MaxCalls

\* Correlation ids: Uuid.v4() gives every call a fresh id; call c gets id c.
\* SpuriousId is an id no call of this client was given, MissingId stands
\* for a message without properties.correlationId (undefined).
SpuriousId == 0

MissingId == 0 - 1

ReplyIds == Calls \cup {SpuriousId, MissingId}

Attempts == 1..MaxConnectionAttempts

OpKinds == {"rpc", "publish", "consume"}

\* The options the caller passes: options.timeout absent, 0, or a positive
\* integer, and whether a transport-native publish option (persistent: true)
\* is among them.
TimeoutOptions ==
    { [given |-> FALSE, ms |-> 0,  native |-> FALSE],
      [given |-> TRUE,  ms |-> 0,  native |-> FALSE],
      [given |-> TRUE,  ms |-> 50, native |-> FALSE],
      [given |-> FALSE, ms |-> 0,  native |-> TRUE] }

NoOptions == [given |-> FALSE, ms |-> 0, native |-> FALSE]

\* JavaScript values of the envelope fields, as tokens.
ErrorVals == {"undefined", "false", "true"}

TraceVals == {"undefined", "null", "", "stack", "other stack"}

DataVals == {"d1", "d2"}

\* JavaScript truthiness of a token.
Truthy(v) == v \notin {"undefined", "null", "false", "", "0"}

\* Reply bodies on the wire: a JSON object (the envelope), the JSON text
\* `null`, a JSON scalar such as `5`, or text that is not JSON.
Envelopes ==
    { [form |-> "object", error |-> e, trace |-> t, data |-> d] :
        e \in ErrorVals, t \in TraceVals, d \in DataVals }

NonEnvelope(f) == [form |-> f, error |-> "undefined", trace |-> "undefined", data |-> "undefined"]

Bodies == Envelopes \cup {NonEnvelope("null"), NonEnvelope("scalar"), NonEnvelope("garbage")}

\* The state of a future and the value it settled with.
Pending == [kind |-> "pending", data |-> "", ms |-> 0]

Resolved(d) == [kind |-> "resolved", data |-> d, ms |-> 0]

TimeoutError(t) == [kind |-> "timeout", data |-> "", ms |-> t]

FatalError == [kind |-> "fatal", data |-> "", ms |-> 0]

ClientError(d) == [kind |-> "client", data |-> d, ms |-> 0]

TransportError == [kind |-> "transport", data |-> "", ms |-> 0]

\* The ack capability of a message has not been invoked.
NotAcked == [channel |-> 0 - 1, open |-> FALSE]

VARIABLES
    channel,         \* this.channel: 0 (not set) or the id of the channel
    chanOpen,        \* whether that channel is open in the transport
    replyQueue,      \* this.replyQueue: 0 (undefined) or the queue's name
    connPc,          \* position of the running _connect invocation
    attempts,        \* `attempts` of the running _connect invocation
    channelPromise,  \* this.channelPromise: the index of the current promise
    promise,         \* the state of every promise channelPromise has held
    kind,            \* per call: "none" or the operation called
    opt,             \* per call: the options passed
    st,              \* per call: "new", "waiting" (deferred) or "done"
    waitOn,          \* per call: the promise a deferred call waits on
    unresolved,      \* this.unresolved: the correlation ids registered
    timer,           \* per call: "none", "armed", "cleared", "fired"
    timerMs,         \* per call: the delay the timer was armed with
    outcome,         \* per call: the state of the future rpcExec returned
    fires,           \* per call: how often the code called resolve/reject
    first,           \* per call: the terminal event processed first
    published,       \* the messages handed to channel.publish, in order
    consumeChan,     \* per call: the channel a consume subscribed on
    handed,          \* per call: the channel that delivered the message its
                     \* consume handler holds, or 0
    ackedOn,         \* per call: this.channel, and whether it was open, when
                     \* the ack of that message ran; or NotAcked
    uncaught         \* the exception that escaped the last task, or "none"

vars == <<channel, chanOpen, replyQueue, connPc, attempts, channelPromise,
          promise, kind, opt, st, waitOn, unresolved, timer, timerMs,
          outcome, fires, first, published, consumeChan, handed, ackedOn,
          uncaught>>

connVars == <<channel, chanOpen, replyQueue, connPc, attempts, channelPromise, promise>>

(***************************************************************************)
(* Pure parts of rpcExec and of the reply callback.                        *)
(***************************************************************************)

\* const timeout = options.timeout || 15000;
RpcTimeout(o) == IF o.given /\ o.ms # 0 THEN o.ms ELSE DefaultTimeout

\* A promise settles once: resolve and reject on a settled promise do nothing.
Settle(cur, new) == IF cur.kind = "pending" THEN new ELSE cur

\* JSON.parse(message.content.toString()) followed by the reads of
\* response.error / response.trace: the exception they raise, or "none".
\* Text that is not JSON makes JSON.parse throw; the JSON text `null` parses
\* to null and reading null.error throws.  A scalar parses and its fields read
\* as undefined.
CallbackThrows(body) ==
    CASE body.form = "garbage" -> "SyntaxError"
      [] body.form = "null"    -> "TypeError"
      [] OTHER                 -> "none"

\* ReplyOutcome without the trace test: every error reply is a client error.
ReplyOutcomeErrorOnly(response) ==
    IF Truthy(response.error)
    THEN ClientError(response.data)
    ELSE Resolved(response.data)

\* ReplyOutcome that attaches the consumer's trace to the fatal error.
ReplyOutcomeLeakTrace(response) ==
    IF Truthy(response.error) /\ Truthy(response.trace)
    THEN [kind |-> "fatal", data |-> response.trace, ms |-> 0]
    ELSE IF Truthy(response.error)
         THEN ClientError(response.data)
         ELSE Resolved(response.data)

\* The three-way split of the reply callback on a parsed response.
ReplyOutcome(response) ==
    IF Truthy(response.error) /\ Truthy(response.trace)
    THEN FatalError
    ELSE IF Truthy(response.error)
         THEN ClientError(response.data)
         ELSE Resolved(response.data)

\* The call-related state as one record, so that the operations below are
\* functions from state to state and can be chained within one task.
CallState ==
    [unresolved |-> unresolved, timer |-> timer, timerMs |-> timerMs,
     outcome |-> outcome, fires |-> fires, first |-> first,
     published |-> published, consumeChan |-> consumeChan,
     handed |-> handed, ackedOn |-> ackedOn, uncaught |-> "none"]

\* What an operation sees of the connection: this.channel, whether the
\* transport still has that channel open, and this.replyQueue.
Conn(ch, open, rq) == [channel |-> ch, open |-> open, replyQueue |-> rq]

\* RpcMessage with the expiration fixed to the default instead of the call's
\* timeout.
RpcMessageDefaultExpiration(c, t, cn) ==
    [call |-> c, op |-> "rpc", contentType |-> "application/json",
     correlationId |-> c, replyTo |-> cn.replyQueue,
     expiration |-> DefaultTimeout, native |-> FALSE, chan |-> cn.channel]

\* sendOptions of rpcExec: DEFAULT_SEND_OPTIONS plus correlationId, replyTo
\* and expiration.  The caller's options are not merged in, so no native
\* option is among them.
RpcMessage(c, t, cn) ==
    [call |-> c, op |-> "rpc", contentType |-> "application/json",
     correlationId |-> c, replyTo |-> cn.replyQueue, expiration |-> t,
     native |-> FALSE, chan |-> cn.channel]

\* publish() hands the caller's options through unchanged: no correlation id,
\* no reply address, no expiration.
PlainMessage(c, o, cn) ==
    [call |-> c, op |-> "publish", contentType |-> "",
     correlationId |-> MissingId, replyTo |-> 0, expiration |-> 0,
     native |-> o.native, chan |-> cn.channel]

\* The executor of rpcExec's promise (this.channel is set): arm the timer,
\* register the callback, publish.  channel.publish on a channel the transport
\* has closed throws; a throw inside the executor rejects the promise.
RpcExec(s, c, o, cn) ==
    LET t == RpcTimeout(o)
        s1 == [s EXCEPT !.timer[c] = "armed",
                        !.timerMs[c] = t,
                        !.unresolved = @ \cup {c}]
    IN  IF cn.open
        THEN [s1 EXCEPT !.published = Append(@, RpcMessage(c, t, cn))]
        ELSE [s1 EXCEPT !.outcome[c] = Settle(@, TransportError)]

\* publish() with this.channel set; a throw reaches the caller.
Publish(s, c, o, cn) ==
    IF cn.open
    THEN [s EXCEPT !.published = Append(@, PlainMessage(c, o, cn))]
    ELSE [s EXCEPT !.uncaught = "IllegalOperationError"]

\* consume() with this.channel set: assertQueue, bindQueue, then
\* channel.consume on this.channel.
Consume(s, c, cn) ==
    IF cn.open
    THEN [s EXCEPT !.consumeChan[c] = cn.channel]
    ELSE [s EXCEPT !.uncaught = "IllegalOperationError"]

\* The consumer callback of consume call c runs on a message delivered by
\* channel cn.channel: _parseMessage wraps it and the handler receives it.
ParseMessage(s, c, cn) ==
    [s EXCEPT !.handed[c] = cn.channel]

\* The handler invokes message.ack(): this.channel.ack(message) with
\* this.channel read now.  On null it is a TypeError; on a channel the
\* transport has closed, ack throws.
Ack(s, c, cn) ==
    [s EXCEPT !.ackedOn[c] = [channel |-> cn.channel, open |-> cn.open],
              !.uncaught = IF cn.channel = 0 THEN "TypeError"
                           ELSE IF ~cn.open THEN "IllegalOperationError"
                           ELSE "none"]

\* One of the three public operations, with this.channel set.
Invoke(s, c, k, o, cn) ==
    CASE k = "rpc"     -> RpcExec(s, c, o, cn)
      [] k = "publish" -> Publish(s, c, o, cn)
      [] OTHER         -> Consume(s, c, cn)

\* The callback without its clearTimeout(timer).
ReplyCallbackNoClear(s, c, body) ==
    LET s1 == [s EXCEPT !.first[c] = IF @ = "none" THEN "reply" ELSE @]
    IN  IF CallbackThrows(body) # "none"
        THEN [s1 EXCEPT !.uncaught = CallbackThrows(body)]
        ELSE [s1 EXCEPT !.outcome[c] = Settle(@, ReplyOutcome(body)),
                        !.fires[c] = IF @ < 2 THEN @ + 1 ELSE @]

\* The callback rpcExec registers, run on a message with `body`:
\* clearTimeout, parse, then reject or resolve.
ReplyCallback(s, c, body) ==
    LET s1 == [s EXCEPT !.timer[c] = IF @ = "armed" THEN "cleared" ELSE @,
                        !.first[c] = IF @ = "none" THEN "reply" ELSE @]
    IN  IF CallbackThrows(body) # "none"
        THEN [s1 EXCEPT !.uncaught = CallbackThrows(body)]
        ELSE [s1 EXCEPT !.outcome[c] = Settle(@, ReplyOutcome(body)),
                        !.fires[c] = IF @ < 2 THEN @ + 1 ELSE @]

\* HandleReply that calls the callback and leaves the entry in the registry.
HandleReplyKeepEntry(s, id, body) ==
    IF id \in s.unresolved
    THEN ReplyCallback(s, id, body)
    ELSE s

\* HandleReply without the `if (callback)` test: calling an absent callback
\* throws.
HandleReplyNoGuard(s, id, body) ==
    IF id \in s.unresolved
    THEN ReplyCallback([s EXCEPT !.unresolved = @ \ {id}], id, body)
    ELSE [s EXCEPT !.uncaught = "TypeError"]

\* _handleReply emptying the registry instead of deleting one id.
HandleReplyClearAll(s, id, body) ==
    IF id \in s.unresolved
    THEN ReplyCallback([s EXCEPT !.unresolved = {}], id, body)
    ELSE s

\* _handleReply: look the correlation id up, and if a callback is registered
\* delete the entry and call it.
HandleReply(s, id, body) ==
    IF id \in s.unresolved
    THEN ReplyCallback([s EXCEPT !.unresolved = @ \ {id}], id, body)
    ELSE s

\* TimerCallback that rejects and leaves the entry in the registry.
TimerCallbackKeepEntry(s, c) ==
    [s EXCEPT !.timer[c] = "fired",
              !.first[c] = IF @ = "none" THEN "timeout" ELSE @,
              !.outcome[c] = Settle(@, TimeoutError(s.timerMs[c])),
              !.fires[c] = IF @ < 2 THEN @ + 1 ELSE @]

\* The timer callback of rpcExec: delete the entry and reject.
TimerCallback(s, c) ==
    [s EXCEPT !.unresolved = @ \ {c},
              !.timer[c] = "fired",
              !.first[c] = IF @ = "none" THEN "timeout" ELSE @,
              !.outcome[c] = Settle(@, TimeoutError(s.timerMs[c])),
              !.fires[c] = IF @ < 2 THEN @ + 1 ELSE @]

\* The calls deferred on promise p, re-invoked in the order they were deferred
\* (calls are numbered in the order they are made) from call c on.
RECURSIVE FlushWaiters(_, _, _, _)
FlushWaiters(s, c, p, cn) ==
    IF c > MaxCalls
    THEN s
    ELSE FlushWaiters(
            IF st[c] = "waiting" /\ waitOn[c] = p
            THEN Invoke(s, c, kind[c], opt[c], cn)
            ELSE s,
            c + 1, p, cn)

\* The call-related variables take the values of record s.
SetCallState(s) ==
    /\ unresolved' = s.unresolved
    /\ timer' = s.timer
    /\ timerMs' = s.timerMs
    /\ outcome' = s.outcome
    /\ fires' = s.fires
    /\ first' = s.first
    /\ published' = s.published
    /\ consumeChan' = s.consumeChan
    /\ handed' = s.handed
    /\ ackedOn' = s.ackedOn
    /\ uncaught' = s.uncaught

(***************************************************************************)
(* Initial state: the constructor has run, _connect(url) is in flight.     *)
(***************************************************************************)
Init ==
    /\ channel = 0
    /\ chanOpen = FALSE
    /\ replyQueue = 0
    /\ connPc = "connecting"
    /\ attempts = 1
    /\ channelPromise = 1
    /\ promise = [p \in Attempts |-> IF p = 1 THEN "pending" ELSE "unused"]
    /\ kind = [c \in Calls |-> "none"]
    /\ opt = [c \in Calls |-> NoOptions]
    /\ st = [c \in Calls |-> "new"]
    /\ waitOn = [c \in Calls |-> 0]
    /\ unresolved = {}
    /\ timer = [c \in Calls |-> "none"]
    /\ timerMs = [c \in Calls |-> 0]
    /\ outcome = [c \in Calls |-> Pending]
    /\ fires = [c \in Calls |-> 0]
    /\ first = [c \in Calls |-> "none"]
    /\ published = <<>>
    /\ consumeChan = [c \in Calls |-> 0]
    /\ handed = [c \in Calls |-> 0]
    /\ ackedOn = [c \in Calls |-> NotAcked]
    /\ uncaught = "none"

(***************************************************************************)
(* The public operations.                                                  *)
(***************************************************************************)

\* The user makes call c: rpcExec, publish or consume.  With this.channel
\* not set the call is deferred on this.channelPromise (_waitForChannel),
\* otherwise it is carried out at once.
Call(c, k, o) ==
    /\ st[c] = "new"
    /\ \A b \in Calls : b < c => st[b] # "new"
    /\ (k = "rpc") \/ (o = NoOptions)
    /\ kind' = [kind EXCEPT ![c] = k]
    /\ opt' = [opt EXCEPT ![c] = o]
    /\ IF channel = 0
       THEN /\ st' = [st EXCEPT ![c] = "waiting"]
            /\ waitOn' = [waitOn EXCEPT ![c] = channelPromise]
            /\ SetCallState(CallState)
       ELSE /\ st' = [st EXCEPT ![c] = "done"]
            /\ waitOn' = waitOn
            /\ SetCallState(Invoke(CallState, c, k, o,
                                   Conn(channel, chanOpen, replyQueue)))
    /\ UNCHANGED connVars

(***************************************************************************)
(* _connect and the transport's completions.                               *)
(***************************************************************************)

\* AMQP.connect and connection.createChannel complete: this.channel is set
\* and, with attempts < maxConnectionAttempts, the 'error' handler is
\* registered.  The reply queue is not declared yet.
ConnectOk ==
    /\ connPc = "connecting"
    /\ channel' = attempts
    /\ chanOpen' = TRUE
    /\ connPc' = "assertQueue"
    /\ SetCallState(CallState)
    /\ UNCHANGED <<replyQueue, attempts, channelPromise, promise, kind, opt, st, waitOn>>

\* AMQP.connect or createChannel fails: the async function throws and its
\* promise is rejected.  Nothing retries.
ConnectFail ==
    /\ connPc = "connecting"
    /\ connPc' = "failed"
    /\ promise' = [promise EXCEPT ![channelPromise] = "rejected"]
    /\ SetCallState(CallState)
    /\ UNCHANGED <<channel, chanOpen, replyQueue, attempts, channelPromise, kind, opt, st, waitOn>>

\* assertQueue('', {exclusive: true}) completes: this.replyQueue is the
\* server-chosen name, one per channel.
AssertQueueOk ==
    /\ connPc = "assertQueue"
    /\ chanOpen
    /\ replyQueue' = channel
    /\ connPc' = "bindQueue"
    /\ SetCallState(CallState)
    /\ UNCHANGED <<channel, chanOpen, attempts, channelPromise, promise, kind, opt, st, waitOn>>

\* bindQueue completes: the reply listener is subscribed, _connect returns
\* and its promise is fulfilled; the calls deferred on it run, in order,
\* before any other task.
BindQueueOk ==
    /\ connPc = "bindQueue"
    /\ chanOpen
    /\ connPc' = "done"
    /\ promise' = [promise EXCEPT ![channelPromise] = "fulfilled"]
    /\ st' = [c \in Calls |->
                IF st[c] = "waiting" /\ waitOn[c] = channelPromise
                THEN "done" ELSE st[c]]
    /\ SetCallState(FlushWaiters(CallState, 1, channelPromise,
                                 Conn(channel, chanOpen, replyQueue)))
    /\ UNCHANGED <<channel, chanOpen, replyQueue, attempts, channelPromise, kind, opt, waitOn>>

\* The 'error' handler registered on every channel, whatever `attempts` is
\* (the handler without the test of line 138).
ChannelErrorAlways ==
    /\ channel # 0
    /\ chanOpen
    /\ chanOpen' = FALSE
    /\ channel' = 0
    /\ channelPromise' = channelPromise + 1
    /\ promise' = [p \in Attempts |->
                     IF p = channelPromise + 1 THEN "pending"
                     ELSE IF p = channelPromise /\ promise[p] = "pending"
                          THEN "rejected" ELSE promise[p]]
    /\ connPc' = "retryWait"
    /\ SetCallState(CallState)
    /\ UNCHANGED <<replyQueue, attempts, kind, opt, st, waitOn>>

\* The channel emits 'error' and the once-handler runs: close the
\* connection, unset this.channel, and replace this.channelPromise by a
\* promise that waits connectionRetryInterval and then runs _connect again.
\* A setup still awaiting assertQueue or bindQueue on the dead
\* channel fails, which rejects the promise it was to fulfil.
ChannelError ==
    /\ channel # 0
    /\ chanOpen
    /\ attempts < MaxConnectionAttempts
    /\ chanOpen' = FALSE
    /\ channel' = 0
    /\ channelPromise' = channelPromise + 1
    /\ promise' = [promise EXCEPT
                     ![channelPromise] = IF @ = "pending" THEN "rejected" ELSE @,
                     ![channelPromise + 1] = "pending"]
    /\ connPc' = "retryWait"
    /\ SetCallState(CallState)
    /\ UNCHANGED <<replyQueue, attempts, kind, opt, st, waitOn>>

\* The transport closes the channel and no handler of this client runs: the
\* connection is lost (the channel emits 'close', which nothing listens to),
\* or the channel errors with attempts = maxConnectionAttempts, when no
\* 'error' handler was registered.  this.channel keeps the dead channel.
ChannelClosed ==
    /\ channel # 0
    /\ chanOpen
    /\ chanOpen' = FALSE
    /\ connPc' = IF connPc = "done" THEN connPc ELSE "failed"
    /\ promise' = [promise EXCEPT
                     ![channelPromise] = IF @ = "pending" THEN "rejected" ELSE @]
    /\ SetCallState(CallState)
    /\ UNCHANGED <<channel, replyQueue, attempts, channelPromise, kind, opt, st, waitOn>>

\* connectionRetryInterval has passed: _connect(url, ++attempts) starts.
RetryTimer ==
    /\ connPc = "retryWait"
    /\ attempts' = attempts + 1
    /\ connPc' = "connecting"
    /\ SetCallState(CallState)
    /\ UNCHANGED <<channel, chanOpen, replyQueue, channelPromise, promise, kind, opt, st, waitOn>>

(***************************************************************************)
(* Replies and timers.                                                     *)
(***************************************************************************)

\* The reply listener is subscribed on the open channel.
Listening == connPc = "done" /\ chanOpen

\* A request with correlation id `id` went out naming the current reply queue.
Addressed(id) ==
    \E i \in 1..Len(published) :
        /\ published[i].correlationId = id
        /\ published[i].replyTo = replyQueue

\* The broker delivers a message to the reply listener: a reply (or a
\* duplicate of one) to a request that named this queue, or a message whose
\* correlation id is none of this client's.
DeliverReply(id, body) ==
    /\ Listening
    /\ id \in Calls => Addressed(id)
    /\ SetCallState(HandleReply(CallState, id, body))
    /\ UNCHANGED <<connVars, kind, opt, st, waitOn>>

\* The timer of call c fires.
TimerFire(c) ==
    /\ timer[c] = "armed"
    /\ SetCallState(TimerCallback(CallState, c))
    /\ UNCHANGED <<connVars, kind, opt, st, waitOn>>

\* The broker delivers a message to the consumer that call c subscribed, on
\* the channel it subscribed on.
ConsumerMessage(c) ==
    /\ consumeChan[c] # 0
    /\ channel = consumeChan[c]
    /\ chanOpen
    /\ handed[c] = 0
    /\ SetCallState(ParseMessage(CallState, c,
                                 Conn(channel, chanOpen, replyQueue)))
    /\ UNCHANGED <<connVars, kind, opt, st, waitOn>>

\* The handler of call c invokes the ack of the message it holds, at any
\* time after it received it.
AckMessage(c) ==
    /\ handed[c] # 0
    /\ ackedOn[c] = NotAcked
    /\ SetCallState(Ack(CallState, c, Conn(channel, chanOpen, replyQueue)))
    /\ UNCHANGED <<connVars, kind, opt, st, waitOn>>

Next ==
    \/ \E c \in Calls, k \in OpKinds, o \in TimeoutOptions : Call(c, k, o)
    \/ ConnectOk
    \/ ConnectFail
    \/ AssertQueueOk
    \/ BindQueueOk
    \/ ChannelError
    \/ ChannelClosed
    \/ RetryTimer
    \/ \E id \in ReplyIds, body \in Bodies : DeliverReply(id, body)
    \/ \E c \in Calls : TimerFire(c)
    \/ \E c \in Calls : ConsumerMessage(c)
    \/ \E c \in Calls : AckMessage(c)

Spec == Init /\ [][Next]_vars

(***************************************************************************)
(* Properties.                                                             *)
(***************************************************************************)

\* A call of rpcExec whose executor has run.
Registered(c) == kind[c] = "rpc" /\ st[c] = "done"

\* The message channel.publish was handed for call c, if any.
Sent(c) == {i \in 1..Len(published) : published[i].call = c}

\* C1: the future of every rpcExec call is settled at most once and never
\* both ways: once a future has left "pending" its state and value never
\* change again, whatever replies (duplicates included), timers and channel
\* events follow; and at most one of the two terminal events (reply callback,
\* timer) ever calls resolve or reject for a call.
C1_SingleSettlement ==
    /\ [](\A c \in Calls : fires[c] <= 1)
    /\ [][\A c \in Calls :
            outcome[c].kind # "pending" => outcome'[c] = outcome[c]]_vars

\* C1 witness: one call was resolved by its reply and is still addressed by
\* the listener (a duplicate reply can arrive), another was rejected by its
\* timer.
C1_Witness ==
    \E c, d \in Calls :
        /\ outcome[c].kind = "resolved" /\ timer[c] = "cleared"
        /\ Listening /\ Addressed(c)
        /\ outcome[d].kind = "timeout" /\ timer[d] = "fired"

\* C2: every registered call settles.  Stated on finite runs: a registered
\* call that has neither a registry entry nor an armed timer left (nothing
\* remains that could settle it) has been settled.
C2_RegisteredCallSettles ==
    \A c \in Calls :
        (Registered(c) /\ c \notin unresolved /\ timer[c] # "armed")
            => outcome[c].kind # "pending"

\* C3: the terminal event processed first for a correlation id decides the
\* call: from then on neither the call's registry entry nor its settled
\* outcome changes, so a reply after the timeout and a timer after the reply
\* have no effect; a call whose reply came first never carries a timeout
\* error, and a call whose timer came first never carries a reply's outcome.
C3_FirstEventWins ==
    /\ [](\A c \in Calls :
            /\ first[c] = "reply" => outcome[c].kind # "timeout"
            /\ first[c] = "timeout" =>
                   outcome[c].kind \notin {"resolved", "client", "fatal"})
    /\ [][\A c \in Calls :
            first[c] # "none" =>
                /\ outcome'[c] = outcome[c]
                /\ (c \in unresolved') = (c \in unresolved)
                /\ first'[c] = first[c]]_vars

\* C3 witness: the timer of a call fired first and a reply to that call can
\* still be delivered to the listener.
C3_Witness ==
    \E c \in Calls :
        /\ first[c] = "timeout" /\ outcome[c].kind = "timeout"
        /\ Listening /\ Addressed(c)

\* The truth table of the classification, written out.
Expected(body) ==
    CASE ~Truthy(body.error)                       -> Resolved(body.data)
      [] Truthy(body.error) /\ ~Truthy(body.trace) -> ClientError(body.data)
      [] Truthy(body.error) /\ Truthy(body.trace)  -> FatalError

\* C4: a matched reply carrying an envelope settles the call as the truth
\* table says: error falsy resolves with data, error truthy and trace falsy
\* rejects with a client error carrying data, both truthy rejects with the
\* fatal-consumer-error marker.
C4_Classification ==
    [][\A id \in Calls :
         (Listening /\ Addressed(id) /\ id \in unresolved) =>
             \A body \in Envelopes :
                 \/ outcome'[id] = Expected(body)
                 \/ ~DeliverReply(id, body)]_vars

\* C4 witness: one call was rejected with a client error and another with
\* the fatal marker, both by their replies.
C4_Witness ==
    \E c, d \in Calls :
        /\ first[c] = "reply" /\ outcome[c] = ClientError("d2")
        /\ first[d] = "reply" /\ outcome[d] = FatalError

\* C5: a message delivered to the reply listener whose correlation id is not
\* in the registry changes neither the registry nor any timer nor any
\* future, and no exception escapes the listener.
C5_UnmatchedReplyNoOp ==
    [][\/ /\ unresolved' = unresolved
          /\ timer' = timer
          /\ outcome' = outcome
          /\ fires' = fires
          /\ uncaught' = "none"
       \/ \A id \in ReplyIds :
             id \notin unresolved =>
                 \A body \in Bodies : ~DeliverReply(id, body)]_vars

\* C5 witness: the listener is subscribed, one call is still registered with
\* its timer armed, and another call's reply can arrive although its entry is
\* gone.
C5_Witness ==
    \E c, d \in Calls :
        /\ Listening
        /\ c \in unresolved /\ timer[c] = "armed"
        /\ d \notin unresolved /\ Addressed(d) /\ first[d] # "none"

\* C6: a correlation id is in the registry exactly when its call is
\* registered and its future was neither settled by a reply nor rejected by
\* the timeout; no entry remains for a call whose future is settled.
C6_RegistryIffOutstanding ==
    \A c \in Calls :
        /\ c \in unresolved <=>
               (Registered(c) /\ first[c] = "none")
        /\ c \in unresolved => outcome[c].kind = "pending"
        /\ (Registered(c) /\ outcome[c].kind = "pending") => c \in unresolved

\* C7: a call made while the channel is not established is carried out once
\* the channel is ready: with the channel ready (setup complete, the channel
\* open) no call is still deferred.
C7_NoCallLeftWaiting ==
    (connPc = "done" /\ chanOpen) => \A c \in Calls : st[c] # "waiting"

\* C8: requests are published in the order their calls were made.
C8_PublishedInCallOrder ==
    \A i, j \in 1..Len(published) :
        i < j => published[i].call < published[j].call

\* The timeout T that governs a call, from the option the caller passed.
GoverningTimeout(c) == IF opt[c].given /\ opt[c].ms > 0 THEN opt[c].ms ELSE 15000

\* C9: one timeout value governs a call: options.timeout when a positive
\* integer was passed and 15000 otherwise; the timer is armed with it, the
\* published request's expiration equals it and a timeout rejection carries it.
C9_OneTimeoutValue ==
    \A c \in Calls :
        Registered(c) =>
            /\ timerMs[c] = GoverningTimeout(c)
            /\ \A i \in Sent(c) : published[i].expiration = GoverningTimeout(c)
            /\ outcome[c].kind = "timeout" => outcome[c].ms = GoverningTimeout(c)

\* C9 witness: a call made with timeout 50 was published and timed out, and
\* a call made without a timeout was published and timed out.
C9_Witness ==
    \E c, d \in Calls :
        /\ opt[c] = [given |-> TRUE, ms |-> 50, native |-> FALSE]
        /\ Sent(c) # {} /\ outcome[c].kind = "timeout"
        /\ ~opt[d].given
        /\ Sent(d) # {} /\ outcome[d].kind = "timeout"

\* C10: a future of rpcExec is rejected only with a timeout error, a client
\* error or the fatal-consumer-error marker.
C10_ThreeErrorKinds ==
    \A c \in Calls :
        outcome[c].kind \in {"pending", "resolved", "timeout", "client", "fatal"}

\* Envelopes that report a fatal consumer error: error and trace truthy.
FatalEnvelopes == {b \in Envelopes : Truthy(b.error) /\ Truthy(b.trace)}

\* C11: the fatal-consumer-error outcome does not depend on the reply's trace
\* and data: wherever a reply to a registered call can be delivered, any two
\* replies with error and trace truthy leave the client in the same state,
\* the caller's rejection included, so nothing of the trace is exposed.
C11_FatalIndependentOfTrace ==
    \A id \in Calls :
        (Listening /\ Addressed(id) /\ id \in unresolved) =>
            \A b1, b2 \in FatalEnvelopes :
                HandleReply(CallState, id, b1) = HandleReply(CallState, id, b2)

\* C11 witness: one call was rejected with the fatal marker by its reply
\* while a reply to another registered call can still be delivered.
C11_Witness ==
    \E c, d \in Calls :
        /\ first[c] = "reply" /\ outcome[c].kind = "fatal"
        /\ Listening /\ Addressed(d) /\ d \in unresolved

\* C12: every request rpcExec publishes carries the JSON content type, the
\* call's correlation id and its expiration, and every transport-native
\* publish option the caller supplied, unchanged.
C12_OptionsForwarded ==
    \A i \in 1..Len(published) :
        published[i].op = "rpc" =>
            /\ published[i].contentType = "application/json"
            /\ published[i].correlationId = published[i].call
            /\ published[i].expiration = RpcTimeout(opt[published[i].call])
            /\ published[i].native = opt[published[i].call].native

\* C13: when the last permitted connection attempt has failed, no caller is
\* left waiting on channel readiness: each deferred call has failed.
C13_ExhaustionFailsWaiters ==
    (attempts = MaxConnectionAttempts /\ connPc = "failed") =>
        \A c \in Calls : st[c] # "waiting"

\* C14: the reconnect loop is bounded: the number of connection attempts
\* never exceeds maxConnectionAttempts, and a further attempt starts only
\* when the retry interval that follows a channel error has passed.
C14_BoundedReconnect ==
    [][/\ attempts' <= MaxConnectionAttempts
       /\ attempts' # attempts =>
              /\ attempts' = attempts + 1
              /\ connPc = "retryWait"
              /\ connPc' = "connecting"]_vars

\* The last permitted attempt produced a channel and that channel died: no
\* further attempt follows.
C14_Witness ==
    /\ attempts = MaxConnectionAttempts
    /\ channel = MaxConnectionAttempts
    /\ ~chanOpen

\* C15: a transport failure with retry budget left starts the retry loop: a
\* connection attempt that has failed for good, with no retry scheduled, can
\* only be the last permitted one.
C15_FailureTriggersRetry ==
    (connPc = "failed" /\ channel = 0) => attempts = MaxConnectionAttempts

\* C16: every request rpcExec publishes names, as reply-to, the reply queue
\* declared on the channel it is published on: never an undefined name (0)
\* and never the queue of an earlier channel.
C16_ReplyToIsCurrentQueue ==
    \A i \in 1..Len(published) :
        published[i].op = "rpc" => published[i].replyTo = published[i].chan

\* C17: between tasks a timer is armed for an id exactly when the id is in
\* the registry; a cancelled timer stays cancelled and never fires; a timer
\* that fires was armed and leaves its own id out of the registry, adding
\* none.
C17_TimerIffRegistered ==
    /\ [](\A c \in Calls : timer[c] = "armed" <=> c \in unresolved)
    /\ [][\A c \in Calls :
            /\ timer[c] = "cleared" => timer'[c] = "cleared"
            /\ (timer'[c] = "fired" /\ timer[c] # "fired") =>
                   /\ timer[c] = "armed"
                   /\ c \notin unresolved'
                   /\ unresolved' \subseteq unresolved]_vars

\* A matching reply has cancelled one call's timer and removed its entry
\* while another call is still registered with its timer armed.
C17_Witness ==
    \E c, d \in Calls :
        /\ first[c] = "reply" /\ timer[c] = "cleared" /\ c \notin unresolved
        /\ timer[d] = "armed" /\ d \in unresolved

\* What the client holds for call d: registry entry, timer, settlement.
CallView(d) ==
    <<d \in unresolved, timer[d], outcome[d], fires[d], first[d]>>

\* C18: calls are told apart by correlation id alone: a step that processes a
\* reply or a timeout for id x leaves the registry entry, the timer and the
\* settlement of every other call as they were.
C18_OtherCallsUntouched ==
    [][\A x \in Calls :
          \/ \A d \in Calls \ {x} : CallView(d)' = CallView(d)
          \/ /\ ~TimerFire(x)
             /\ (Listening /\ Addressed(x)) =>
                    \A body \in Bodies : ~DeliverReply(x, body)]_vars

\* One call was resolved by its reply while another, whose request also
\* names the reply queue, is still registered with its timer armed.
C18_Witness ==
    \E c, d \in Calls :
        /\ c # d
        /\ first[c] = "reply" /\ outcome[c].kind = "resolved"
        /\ d \in unresolved /\ timer[d] = "armed" /\ Addressed(d)

\* C20: a matching reply that removes the registry entry settles the future
\* in the same step, whatever its body: a call whose first event was its
\* reply is never left pending.
C20_ReplySettles ==
    \A c \in Calls : first[c] = "reply" => outcome[c].kind # "pending"

\* C19: whenever the ack of a message handed to a consume handler is
\* invoked, it runs on a channel that is set and open and is the channel that
\* delivered the message.
C19_AckOnDeliveringChannel ==
    \A c \in Calls :
        ackedOn[c] # NotAcked =>
            /\ ackedOn[c].channel # 0
            /\ ackedOn[c].open
            /\ ackedOn[c].channel = handed[c]

====
